---------------------------- MODULE Spec2Model ----------------------------
(***************************************************************************)
(* A model of the currency algebra of crypto-apis: the key normalizer      *)
(* (src/utils.py), the Ticker price graph and the coro helper              *)
(* (src/exchanges/utils.py), the Balance amount vector (src/utils.py),     *)
(* the deferred composition of MarketAPI (src/exchanges/spec.py) and the   *)
(* class-wide ticker cache of YobitAPI (src/exchanges/__init__.py).        *)
(*                                                                         *)
(* Representation.                                                         *)
(*  - Every Python value carries its type as its first component, so that *)
(*    isinstance() and attribute lookup can be decided.                    *)
(*  - A number is <<"num", n, d>>: the exact rational n/d in lowest terms  *)
(*    with d > 0 (1.0 and 1 are both <<"num", 1, 1>>, as 1.0 == 1 in       *)
(*    Python).  Float rounding is not modelled: products and reciprocals   *)
(*    are exact.                                                           *)
(*  - A dict is <<"dict", items>>, items the sequence of <<key, value>>    *)
(*    pairs with distinct keys in insertion order (the order .items()      *)
(*    iterates in).  A list is <<"list", seq>>.                            *)
(*  - The outcome of a call is a record: Ok(v, arg) for a returned value v *)
(*    and Raise(err, key, arg) for a raised exception of class err; arg is *)
(*    the object passed to the call as it is after the call.               *)
(***************************************************************************)
EXTENDS Integers, Sequences, FiniteSets, TLC

VARIABLES
    nin,       \* normalizer: the mapping as it was when normalize_keys was last called
    nd,        \* normalizer: the mapping object passed to normalize_keys, as it is now
    nagg,      \* normalizer: the agg argument ("None", "sum" or "list")
    ninplace,  \* normalizer: the inplace argument
    nrecursive, \* normalizer: the recursive argument
    npc,       \* normalizer: "ready" before the call, "done" after it, "again"
               \*             after a second call, made on the result of the first
    nout,      \* normalizer: outcome of the call
    tk,        \* ticker: the Ticker instance at hand (None before construction)
    thist,     \* ticker: the last calls that made tk, oldest first: <<"Ticker", raw>>
               \*         or <<method, receiver>> (at most HistLen of them are kept)
    tn,        \* ticker: number of transformations applied since construction
    top,       \* ticker: the last call, with its arguments (and, for a read,
               \*         the receiver as it was)
    tout,      \* ticker: outcome of the last call
    ba,        \* balance: left operand of a * b
    bb,        \* balance: right operand of a * b
    bout,      \* balance: outcome of the last operation
    bop,       \* balance: the last operation ("none" before it)
    bpre,      \* balance: <<a, b>> as they were when the operation was called
    mk,        \* market: the call of MarketAPI at hand and its deferred computation
    mfetches,  \* market: number of completed _fetch_ticker calls
    heap,      \* yobit: row dict objects, by object id
    cache,     \* yobit: YobitAPI._ticker_cache, currency -> row object id
    ytasks,    \* yobit: running fetch_prices / ticker coroutines
    yret,      \* yobit: Tickers already returned by ticker(), with a snapshot
    ynreq      \* yobit: number of coroutines started so far

normVars == <<nin, nd, nagg, ninplace, nrecursive, npc, nout>>
tickVars == <<tk, thist, tn, top, tout>>
balVars  == <<ba, bb, bout, bop, bpre>>
mktVars  == <<mk, mfetches>>
yobVars  == <<heap, cache, ytasks, yret, ynreq>>
vars == <<normVars, tickVars, balVars, mktVars, yobVars>>

-----------------------------------------------------------------------------
(* Numbers *)

RECURSIVE GCD(_, _)
GCD(a, b) == IF b = 0 THEN a ELSE GCD(b, a % b)

Abs(i) == IF i < 0 THEN -i ELSE i

\* The number n/d (d # 0) in lowest terms with a positive denominator.
Num(n, d) ==
    LET g == GCD(Abs(n), Abs(d))
        s == IF d < 0 THEN -1 ELSE 1
    IN  <<"num", (s * n) \div g, (s * d) \div g>>

Zero == <<"num", 0, 1>>
One  == <<"num", 1, 1>>

\* x * y, x + y, x < y and 1 / x (x # 0) on numbers
NumMul(x, y) == Num(x[2] * y[2], x[3] * y[3])
NumAdd(x, y) == Num(x[2] * y[3] + y[2] * x[3], x[3] * y[3])
NumLess(x, y) == x[2] * y[3] < y[2] * x[3]
NumInv(x) == Num(x[3], x[2])

-----------------------------------------------------------------------------
(* Python values: dict and list *)

Dict(items) == <<"dict", items>>
List(seq) == <<"list", seq>>
EmptyDict == Dict(<<>>)
TypeOf(x) == x[1]
\* the classes of the program that are dicts: isinstance(x, dict)
DictTypes == {"dict", "defaultdict", "Ticker", "Balance"}
IsDict(x) == TypeOf(x) \in DictTypes
Items(d) == d[2]
\* the same object with other entries (its class is kept)
WithItems(d, items) == <<TypeOf(d), items>>

Keys(d) == {Items(d)[i][1] : i \in 1..Len(Items(d))}
Has(d, k) == k \in Keys(d)
IndexOf(d, k) == CHOOSE i \in 1..Len(Items(d)) : Items(d)[i][1] = k
\* d[k] for a key that is present
Get(d, k) == Items(d)[IndexOf(d, k)][2]
\* d.get(k, default)
GetOr(d, k, default) == IF Has(d, k) THEN Get(d, k) ELSE default
\* d[k] = v : replaces the value in place, or appends a new last entry
Put(d, k, v) ==
    IF Has(d, k) THEN WithItems(d, [Items(d) EXCEPT ![IndexOf(d, k)] = <<k, v>>])
    ELSE WithItems(d, Append(Items(d), <<k, v>>))
\* a flat dict as a function of its keys (dict equality ignores order)
AsFn(d) == [k \in Keys(d) |-> Get(d, k)]

\* None, and the outcomes of a call
None == <<"None">>
Ok(v, arg) == [ok |-> TRUE, val |-> v, err |-> "None", key |-> "None", arg |-> arg]
Raise(err, key, arg) == [ok |-> FALSE, val |-> None, err |-> err, key |-> key, arg |-> arg]
NoOutcome == Raise("NoCall", "None", None)
IsNone(x) == TypeOf(x) = "None"

-----------------------------------------------------------------------------
(* Alias table and key normalizer: src/utils.py *)

ALIASES == {
    <<{"BCC", "BCH", "Bitcoin Cash (BCH)"}, "BCH">>,
    <<{"DASH", "DSH", "Dash (DASH)"}, "DASH">>,
    <<{"Bitcoin (BTC)", "BTC"}, "BTC">>,
    <<{"Ethereum (ETH)", "ETH"}, "ETH">>,
    <<{"Zcash (ZEC)", "ZEC"}, "ZEC">>,
    <<{"Monero (XMR)", "XMR"}, "XMR">>,
    <<{"Litecoin (LTC)", "LTC"}, "LTC">>,
    <<{"Ether Classic (ETC)", "ETC"}, "ETC">>,
    <<{"Namecoin (NMC)", "NMC"}, "NMC">>,
    <<{"Peercoin (PPC)", "PPC"}, "PPC">>,
    <<{"Ripple (XRP)", "XRP"}, "XRP">>,
    <<{"Dogecoin (DOGE)", "DOGE"}, "DOGE">>,
    <<{"RUR", "RUB"}, "RUB">>,
    <<{"Tether (USDT)", "USDT"}, "USDT">>,
    <<{"NEM (XEM)", "XEM"}, "XEM">>,
    <<{"Augur (REP)", "REP"}, "REP">>
}

\* {src: trg for key, trg in ALIASES.items() for src in key}
_ALIASES_FLATTENED ==
    [src \in UNION {g[1] : g \in ALIASES} |-> (CHOOSE g \in ALIASES : src \in g[1])[2]]

\* The raw spellings the model draws keys from, and str.upper() on them.
LowerKeys == {"btc", "usdt", "bcc", "rur", "eth", "ltc"}
MixedKeys == {"Bitcoin (BTC)", "Tether (USDT)"}
UpperKeys == {"BTC", "USDT", "BCC", "BCH", "RUR", "RUB", "ETH", "LTC",
              "BITCOIN (BTC)", "TETHER (USDT)"}
upper(k) ==
    CASE k = "btc" -> "BTC"
      [] k = "usdt" -> "USDT"
      [] k = "bcc" -> "BCC"
      [] k = "rur" -> "RUR"
      [] k = "eth" -> "ETH"
      [] k = "ltc" -> "LTC"
      [] k = "Bitcoin (BTC)" -> "BITCOIN (BTC)"
      [] k = "Tether (USDT)" -> "TETHER (USDT)"
      [] k \in UpperKeys -> k

\* _ALIASES_FLATTENED.get(k): "None" when k is no alias
AliasGet(k) ==
    IF k \in DOMAIN _ALIASES_FLATTENED THEN _ALIASES_FLATTENED[k] ELSE "None"

\* a or b, on strings and None
OrElse(a, b) == IF a # "None" THEN a ELSE b

\* the return of normalized_key, u being k.upper()
NormalizedKeyOf(k, u) == OrElse(AliasGet(k), OrElse(AliasGet(u), u))

normalized_key(k) == NormalizedKeyOf(k, upper(k))

\* agg(values) for the aggregators the model passes: sum and list
RECURSIVE SumFrom(_, _, _)
SumFrom(values, i, acc) ==
    IF i > Len(values) THEN acc
    ELSE SumFrom(values, i + 1, NumAdd(acc, values[i]))

ApplyAgg(agg, values) ==
    CASE agg = "sum" -> SumFrom(values, 1, Zero)
      [] agg = "list" -> List(values)

\* the agg is None loop: raises at the first key already in result
RECURSIVE ImplNoAgg(_, _, _)
RECURSIVE ImplNoAggKey(_, _, _, _)
ImplNoAggKey(items, i, result, key) ==
    IF Has(result, key) THEN Raise("ValueError", key, None)
    ELSE ImplNoAgg(items, i + 1, Put(result, key, items[i][2]))

ImplNoAgg(items, i, result) ==
    IF i > Len(items) THEN Ok(result, None)
    ELSE ImplNoAggKey(items, i, result, normalized_key(items[i][1]))

\* the first loop with an agg: result[normalized_key(key)].append(value)
RECURSIVE ImplCollect(_, _, _)
RECURSIVE ImplCollectKey(_, _, _, _)
\* a faulty variant: the value is put first in the list instead of appended
ImplCollectKey_prepend(items, i, result, key) ==
    ImplCollect(items, i + 1,
        Put(result, key, <<items[i][2]>> \o GetOr(result, key, <<>>)))

ImplCollectKey(items, i, result, key) ==
    ImplCollect(items, i + 1,
        Put(result, key, Append(GetOr(result, key, <<>>), items[i][2])))

ImplCollect(items, i, result) ==
    IF i > Len(items) THEN result
    ELSE ImplCollectKey(items, i, result, normalized_key(items[i][1]))

\* the second loop with an agg: result[key] = agg(values)
ImplReduce(result, agg) ==
    WithItems(result, [j \in 1..Len(Items(result)) |->
        <<Items(result)[j][1], ApplyAgg(agg, Items(result)[j][2])>>])

\* result as the loops of _normalize_keys_impl leave it, or the raised error
ImplResult(d, agg) ==
    IF agg = "None" THEN ImplNoAgg(Items(d), 1, Dict(<<>>))
    ELSE Ok(ImplReduce(ImplCollect(Items(d), 1, <<"defaultdict", <<>>>>), agg), None)

\* d.clear(); d.update(result); return d
ImplInplace(m) == Ok(m, m)

\* a faulty variant: d.update(result) without d.clear()
RECURSIVE DictUpdate(_, _, _)
DictUpdate(d, items, i) ==
    IF i > Len(items) THEN d
    ELSE DictUpdate(Put(d, items[i][1], items[i][2]), items, i + 1)
ImplReturn_noclear(d, r, inplace) ==
    IF ~r.ok THEN Raise(r.err, r.key, d)
    ELSE IF inplace THEN ImplInplace(DictUpdate(d, Items(r.val), 1))
    ELSE Ok(r.val, d)

\* the end of _normalize_keys_impl, r being the outcome of its loops
ImplReturn(d, r, inplace) ==
    IF ~r.ok THEN Raise(r.err, r.key, d)
    ELSE IF inplace THEN ImplInplace(WithItems(d, Items(r.val)))
    ELSE Ok(r.val, d)

\* _normalize_keys_impl(d, agg=agg, inplace=inplace)
_normalize_keys_impl(d, agg, inplace) ==
    IF ~IsDict(d) THEN Raise("AttributeError", "items", d)
    ELSE ImplReturn(d, ImplResult(d, agg), inplace)

\* for entry in d.values(): normalize_keys(entry, agg=agg, inplace=True)
\* (the nested call leaves recursive at its default, False)
RECURSIVE NormEntriesInplace(_, _, _)
RECURSIVE EntryStored(_, _, _, _)
EntryStored(m, i, agg, r) ==
    IF ~r.ok THEN Raise(r.err, r.key, m)
    ELSE NormEntriesInplace(m, i + 1, agg)

\* the i-th entry of d after its in-place normalization with outcome r
EntryDone(d, i, agg, r) ==
    EntryStored(WithItems(d, [Items(d) EXCEPT ![i] = <<Items(d)[i][1], r.arg>>]), i, agg, r)

NormEntriesInplace(d, i, agg) ==
    IF i > Len(Items(d)) THEN Ok(d, d)
    ELSE EntryDone(d, i, agg, _normalize_keys_impl(Items(d)[i][2], agg, TRUE))

\* {key: normalize_keys(entry, agg=agg) for key, entry in d.items()}
RECURSIVE NormEntriesCopy(_, _, _, _)
RECURSIVE EntryCopied(_, _, _, _, _)
EntryCopied(d, i, agg, result, r) ==
    IF ~r.ok THEN Raise(r.err, r.key, d)
    ELSE NormEntriesCopy(d, i + 1, agg, Put(result, Items(d)[i][1], r.val))

NormEntriesCopy(d, i, agg, result) ==
    IF i > Len(Items(d)) THEN Ok(result, d)
    ELSE EntryCopied(d, i, agg, result, _normalize_keys_impl(Items(d)[i][2], agg, FALSE))

\* return _normalize_keys_impl(d, agg=agg, inplace=True) after the entries
RecursiveInplace(e, agg) ==
    IF ~e.ok THEN e ELSE _normalize_keys_impl(e.arg, agg, TRUE)

\* return _normalize_keys_impl(d, agg=agg, inplace=False) on the rebuilt d
RecursiveCopy(d, e, agg) ==
    IF ~e.ok THEN e ELSE [_normalize_keys_impl(e.val, agg, FALSE) EXCEPT !.arg = d]

normalize_keys(d, agg, inplace, recursive) ==
    IF ~recursive THEN _normalize_keys_impl(d, agg, inplace)
    ELSE IF ~IsDict(d) THEN Ok(d, d)
    ELSE IF inplace THEN RecursiveInplace(NormEntriesInplace(d, 1, agg), agg)
    ELSE RecursiveCopy(d, NormEntriesCopy(d, 1, agg, Dict(<<>>)), agg)

-----------------------------------------------------------------------------
(* inverted: src/utils.py; Ticker: src/exchanges/utils.py *)

\* a faulty variant: 1 / price without the zero guard
PriceInverter_unguarded(price) == NumInv(price)

\* lambda price: price and 1 / price
PriceInverter(price) == IF price = Zero THEN price ELSE NumInv(price)

\* a faulty variant: the amount is kept as it is
InvertedOrder_sameamount(order) ==
    Dict(<<<<"order_id", Get(order, "order_id")>>,
           <<"amount", Get(order, "amount")>>,
           <<"price", PriceInverter(Get(order, "price"))>>>>)

\* dict(order_id=order['order_id'], amount=order['amount'] * order['price'],
\*      price=order['price'] and 1 / order['price'])
InvertedOrder(order) ==
    Dict(<<<<"order_id", Get(order, "order_id")>>,
           <<"amount", NumMul(Get(order, "amount"), Get(order, "price"))>>,
           <<"price", PriceInverter(Get(order, "price"))>>>>)

\* lambda orders: list(dict(...) for order in orders)
OrdersInverter(orders) ==
    List([j \in 1..Len(orders[2]) |-> InvertedOrder(orders[2][j])])

\* inverter(value) for the inverters the program passes
ApplyInverter(inverter, value) ==
    CASE inverter = "identity" -> value
      [] inverter = "price" -> PriceInverter(value)
      [] inverter = "orders" -> OrdersInverter(value)

\* result[to][from_] = v
PutEdge(result, to, from_, v) ==
    Put(result, to, Put(GetOr(result, to, EmptyDict), from_, v))

\* the inner loop of inverted: result[to][from_] = inverter(value)
RECURSIVE InvertedEntry(_, _, _, _, _)
\* a faulty variant: an edge whose value is falsy (a zero price) is skipped
InvertedEntry_skipzero(from_, entry, j, inverter, result) ==
    IF j > Len(Items(entry)) THEN result
    ELSE InvertedEntry(from_, entry, j + 1, inverter,
             IF Items(entry)[j][2] = Zero THEN result
             ELSE PutEdge(result, Items(entry)[j][1], from_,
                          ApplyInverter(inverter, Items(entry)[j][2])))

InvertedEntry(from_, entry, j, inverter, result) ==
    IF j > Len(Items(entry)) THEN result
    ELSE InvertedEntry(from_, entry, j + 1, inverter,
             PutEdge(result, Items(entry)[j][1], from_,
                     ApplyInverter(inverter, Items(entry)[j][2])))

\* the outer loop of inverted: for from_, entry in d.items()
RECURSIVE InvertedFrom(_, _, _, _)
InvertedFrom(d, i, inverter, result) ==
    IF i > Len(Items(d)) THEN result
    ELSE InvertedFrom(d, i + 1, inverter,
             InvertedEntry(Items(d)[i][1], Items(d)[i][2], 1, inverter, result))

\* a faulty variant: the values are inverted but the keys are not transposed
inverted_untransposed(d, inverter) ==
    Dict([i \in 1..Len(Items(d)) |->
        <<Items(d)[i][1], Dict([j \in 1..Len(Items(Items(d)[i][2])) |->
            <<Items(Items(d)[i][2])[j][1],
              ApplyInverter(inverter, Items(Items(d)[i][2])[j][2])>>])>>])

\* inverted(d, inverter): [from_][to] -> [to][from_]
inverted(d, inverter) == InvertedFrom(d, 1, inverter, Dict(<<>>))

\* a faulty variant: no self price is added
_add_self_prices_skipped(self) == self

\* Ticker._add_self_prices: for key in self: self[key][key] = 1.0
_add_self_prices(self) ==
    WithItems(self, [i \in 1..Len(Items(self)) |->
        <<Items(self)[i][1], Put(Items(self)[i][2], Items(self)[i][1], One)>>])

\* raw after Ticker(raw): its own keys, and its rows (which the Ticker
\* shares) as the constructor left them in self
RawAfter(raw, self) ==
    WithItems(raw, [i \in 1..Len(Items(raw)) |-> <<Items(raw)[i][1], Items(self)[i][2]>>])

\* Ticker.__init__ once _normalize_keys has returned
TickerNormalized(raw, self) == Ok(self, RawAfter(raw, self))

\* Ticker.__init__ after dict.__init__, n being the outcome of _normalize_keys
TickerCopied(raw, n) ==
    IF n.ok THEN TickerNormalized(raw, _add_self_prices(n.val))
    ELSE Raise(n.err, n.key, RawAfter(raw, n.arg))

\* Ticker._normalize_keys
_normalize_keys(self) == normalize_keys(self, "None", TRUE, TRUE)

\* Ticker(raw): dict.__init__ copies the top level of raw (the rows stay the
\* objects of raw), then _normalize_keys and _add_self_prices
Ticker__init__(raw) == TickerCopied(raw, _normalize_keys(<<"Ticker", Items(raw)>>))

\* the same outcome, of a call whose argument is x and is left as it was
WithArg(r, x) == [r EXCEPT !.arg = x]

\* Balance(mapping): a Counter holding the entries of the mapping
Balance(mapping) == <<"Balance", Items(mapping)>>

\* Ticker.prices: Balance(self[target_currency])
Ticker_prices(self, target_currency) ==
    IF Has(self, target_currency)
    THEN Ok(Balance(Get(self, target_currency)), self)
    ELSE Raise("KeyError", target_currency, self)

\* a faulty variant: the receiver is made the inverted mapping
\* (self.clear(); self.update(...)) and returned
Ticker_inverted_inplace(self) == Ticker__init__(inverted(self, "price"))

\* Ticker.inverted
Ticker_inverted(self) == WithArg(Ticker__init__(inverted(self, "price")), self)

\* the entry loop of increased_by_fee
FeeEntry(outer_key, entry, fee) ==
    Dict([j \in 1..Len(Items(entry)) |->
        IF Items(entry)[j][1] = outer_key THEN Items(entry)[j]
        ELSE <<Items(entry)[j][1], NumMul(Items(entry)[j][2], fee)>>])

\* if fee < 1: fee += 1
FeeFactor(fee) == IF NumLess(fee, One) THEN NumAdd(fee, One) ELSE fee

\* the loop of increased_by_fee: result[outer_key] = new_entry
FeeScaled(self, fee) ==
    <<"Ticker", [i \in 1..Len(Items(self)) |->
        <<Items(self)[i][1], FeeEntry(Items(self)[i][1], Items(self)[i][2], fee)>>]>>

\* Ticker.increased_by_fee
increased_by_fee(self, fee) == Ok(FeeScaled(self, FeeFactor(fee)), self)

\* a dict comprehension over d.items() that keeps the keys in accepted_keys
Restrict(d, accepted_keys) ==
    LET keep(kv) == kv[1] \in accepted_keys
    IN  Dict(SelectSeq(Items(d), keep))

\* the inner comprehension of projected, on each row that is kept
RestrictRows(outer, accepted_keys) ==
    Dict([i \in 1..Len(Items(outer)) |->
        <<Items(outer)[i][1], Restrict(Items(outer)[i][2], accepted_keys)>>])

\* Ticker.projected
projected(self, accepted_keys) ==
    WithArg(Ticker__init__(RestrictRows(Restrict(self, accepted_keys), accepted_keys)), self)

-----------------------------------------------------------------------------
(* Balance: src/utils.py *)

\* the Counter branch, first loop: result[key] = value * other.get(key, 0)
RECURSIVE MulSelfKeys(_, _, _, _)
\* a faulty variant: result[key] = value, the price is not applied
MulSelfKeys_unscaled(self, other, i, result) ==
    IF i > Len(Items(self)) THEN result
    ELSE MulSelfKeys(self, other, i + 1,
             Put(result, Items(self)[i][1], Items(self)[i][2]))

MulSelfKeys(self, other, i, result) ==
    IF i > Len(Items(self)) THEN result
    ELSE MulSelfKeys(self, other, i + 1,
             Put(result, Items(self)[i][1],
                 NumMul(Items(self)[i][2], GetOr(other, Items(self)[i][1], Zero))))

\* a faulty variant: a key of other that self lacks is left out
ZeroIfMissing_dropped(result, key) == result

\* if key not in result: result[key] = 0
ZeroIfMissing(result, key) == IF Has(result, key) THEN result ELSE Put(result, key, Zero)

\* the Counter branch, second loop: for key in other
RECURSIVE MulOtherKeys(_, _, _)
MulOtherKeys(other, i, result) ==
    IF i > Len(Items(other)) THEN result
    ELSE MulOtherKeys(other, i + 1, ZeroIfMissing(result, Items(other)[i][1]))

\* the scalar branch: result = Balance(self); result[key] *= other
MulScalar(self, other) ==
    WithItems(self, [i \in 1..Len(Items(self)) |->
        <<Items(self)[i][1], NumMul(Items(self)[i][2], other)>>])

\* Balance.__mul__(self, other)
Balance__mul__(self, other) ==
    IF TypeOf(other) \in {"Balance", "Counter"}
    THEN Ok(MulOtherKeys(other, 1, MulSelfKeys(self, other, 1, Balance(EmptyDict))), self)
    ELSE IF TypeOf(other) = "num" THEN Ok(MulScalar(self, other), self)
    ELSE Raise("NotImplementedError", "None", self)

\* Counter.__add__, first loop: newcount = count + other[elem], kept if > 0
RECURSIVE AddSelfKeys(_, _, _, _)
AddSelfKeys(self, other, i, result) ==
    IF i > Len(Items(self)) THEN result
    ELSE AddSelfKeys(self, other, i + 1,
             IF NumLess(Zero, NumAdd(Items(self)[i][2], GetOr(other, Items(self)[i][1], Zero)))
             THEN Put(result, Items(self)[i][1],
                      NumAdd(Items(self)[i][2], GetOr(other, Items(self)[i][1], Zero)))
             ELSE result)

\* Counter.__add__, second loop: if elem not in self and count > 0
RECURSIVE AddOtherKeys(_, _, _, _)
AddOtherKeys(self, other, i, result) ==
    IF i > Len(Items(other)) THEN result
    ELSE AddOtherKeys(self, other, i + 1,
             IF ~Has(self, Items(other)[i][1]) /\ NumLess(Zero, Items(other)[i][2])
             THEN Put(result, Items(other)[i][1], Items(other)[i][2])
             ELSE result)

\* super().__add__(other), the addition of collections.Counter
Counter__add__(self, other) ==
    AddOtherKeys(self, other, 1, AddSelfKeys(self, other, 1, <<"Counter", <<>>>>))

\* Balance.__add__(self, other)
Balance__add__(self, other) ==
    IF TypeOf(other) \in {"Balance", "Counter"}
    THEN Ok(Balance(Counter__add__(self, other)), self)
    ELSE Raise("TypeError", "None", self)

\* Counter.__iadd__, the loop: self[elem] += count
RECURSIVE IAddKeys(_, _, _)
IAddKeys(self, other, i) ==
    IF i > Len(Items(other)) THEN self
    ELSE IAddKeys(Put(self, Items(other)[i][1],
                      NumAdd(GetOr(self, Items(other)[i][1], Zero), Items(other)[i][2])),
                  other, i + 1)

\* Counter._keep_positive: the entries that are not positive are deleted
KeepPositive(self) ==
    LET positive(kv) == NumLess(Zero, kv[2])
    IN  WithItems(self, SelectSeq(Items(self), positive))

\* balance += amount: Balance has no __iadd__, so Counter.__iadd__ runs on
\* the receiver itself and returns it
Balance__iadd__(self, other) ==
    IF TypeOf(other) \in {"Balance", "Counter"}
    THEN Ok(KeepPositive(IAddKeys(self, other, 1)), KeepPositive(IAddKeys(self, other, 1)))
    ELSE Raise("TypeError", "None", self)

\* Balance.project(*keys)
Balance_project(self, keys) == Ok(Balance(Restrict(self, keys)), self)

\* Balance.excluding(*keys)
Balance_excluding(self, keys) == Ok(Balance(Restrict(self, Keys(self) \ keys)), self)

-----------------------------------------------------------------------------
(* coro: src/exchanges/utils.py; MarketAPI: src/exchanges/spec.py *)

\* the coroutine object of MarketAPI.ticker(): not started
TickerCoro == <<"coroutine", "ticker">>
\* coro(awaitable, converter, *args): the coroutine object of _coro(), not started
coro(awaitable, converter, args) == <<"coroutine", "coro", awaitable, converter, args>>
\* asyncio.iscoroutine
iscoroutine(x) == TypeOf(x) = "coroutine"

\* MarketAPI.buy_prices(from_currency, ticker)
buy_prices(from_currency, ticker) ==
    IF IsNone(ticker) THEN Ok(coro(TickerCoro, "buy_prices", <<from_currency>>), ticker)
    ELSE IF TypeOf(ticker) # "Ticker" THEN Raise("AttributeError", "prices", ticker)
    ELSE Ticker_prices(ticker, from_currency)

\* .prices(to_currency) on the outcome of ticker.inverted()
InvertedPrices(inv, to_currency, ticker) ==
    IF ~inv.ok THEN inv ELSE WithArg(Ticker_prices(inv.val, to_currency), ticker)

\* a faulty variant: the ticker is fetched even when one is passed
sell_prices_refetched(to_currency, ticker) ==
    Ok(coro(TickerCoro, "sell_prices", <<to_currency>>), ticker)

\* MarketAPI.sell_prices(to_currency, ticker)
sell_prices(to_currency, ticker) ==
    IF IsNone(ticker) THEN Ok(coro(TickerCoro, "sell_prices", <<to_currency>>), ticker)
    ELSE IF TypeOf(ticker) # "Ticker" THEN Raise("AttributeError", "inverted", ticker)
    ELSE InvertedPrices(Ticker_inverted(ticker), to_currency, ticker)

\* buy_cost and sell_cost after the prices call with outcome p
CostOf(converter, balance, target_currency, ticker, p) ==
    IF ~p.ok THEN p
    ELSE IF iscoroutine(p.val)
    THEN Ok(coro(p.val, converter, <<balance, target_currency>>), ticker)
    ELSE WithArg(Balance__mul__(balance, p.val), ticker)

\* MarketAPI.buy_cost(balance, target_currency, ticker)
buy_cost(balance, target_currency, ticker) ==
    CostOf("buy_cost", balance, target_currency, ticker, buy_prices(target_currency, ticker))

\* MarketAPI.sell_cost(balance, target_currency, ticker)
sell_cost(balance, target_currency, ticker) ==
    CostOf("sell_cost", balance, target_currency, ticker, sell_prices(target_currency, ticker))

\* the coroutine object of ExchangeAPI.open_orders(): not started
OpenOrdersCoro == <<"coroutine", "open_orders">>

\* simplify_defaultdict(d)
RECURSIVE simplify_defaultdict(_)
simplify_defaultdict(d) ==
    IF TypeOf(d) = "defaultdict"
    THEN Dict([i \in 1..Len(Items(d)) |->
             <<Items(d)[i][1], simplify_defaultdict(Items(d)[i][2])>>])
    ELSE d

\* ExchangeAPI.open_orders() once _get_open_orders_data has returned raw_data
open_orders(raw_data) ==
    WithArg(normalize_keys(simplify_defaultdict(raw_data), "None", FALSE, TRUE), raw_data)

\* ExchangeAPI.open_buy_orders(to_currency, open_orders)
open_buy_orders(to_currency, orders) ==
    IF IsNone(orders)
    THEN Ok(coro(OpenOrdersCoro, "open_buy_orders", <<to_currency>>), orders)
    ELSE Ok(GetOr(inverted(orders, "orders"), to_currency, EmptyDict), orders)

\* ExchangeAPI.open_sell_orders(from_currency, open_orders)
open_sell_orders(from_currency, orders) ==
    IF IsNone(orders)
    THEN Ok(coro(OpenOrdersCoro, "open_sell_orders", <<from_currency>>), orders)
    ELSE Ok(GetOr(orders, from_currency, EmptyDict), orders)

\* converter(*args, awaited) for the converters coro is given
CallConverter(converter, args, awaited) ==
    CASE converter = "buy_prices" -> buy_prices(args[1], awaited)
      [] converter = "sell_prices" -> sell_prices(args[1], awaited)
      [] converter = "buy_cost" -> buy_cost(args[1], args[2], awaited)
      [] converter = "sell_cost" -> sell_cost(args[1], args[2], awaited)
      [] converter = "open_buy_orders" -> open_buy_orders(args[1], awaited)
      [] converter = "open_sell_orders" -> open_sell_orders(args[1], awaited)

\* MarketAPI.ticker() once _fetch_ticker has returned fetched
ticker(fetched) == Ticker__init__(fetched)

\* return converter(*args, awaited), or the exception the await raised
Converted(co, awaited) ==
    IF ~awaited.ok THEN awaited ELSE CallConverter(co[4], co[5], awaited.val)

\* Driving a coroutine object to completion, the fetch returning fetched:
\* _coro() is  awaited = await awaitable; return converter(*args, awaited)
RECURSIVE Await(_, _)
Await(co, fetched) ==
    IF co[2] = "ticker" THEN ticker(fetched)
    ELSE IF co[2] = "open_orders" THEN open_orders(fetched)
    ELSE Converted(co, Await(co[3], fetched))

-----------------------------------------------------------------------------
(* YobitAPI and its class-wide _ticker_cache: src/exchanges/__init__.py *)

\* A row of the cache is an object that the cache and every Ticker made from
\* it hold by reference: the heap maps object ids to rows, and an outer
\* mapping (the cache, a Ticker) maps a currency to <<"ref", id>>.
Ref(id) == <<"ref", id>>
\* the outer mapping with each reference replaced by the row it points to
Deref(h, outer) ==
    WithItems(outer, [i \in 1..Len(Items(outer)) |->
        <<Items(outer)[i][1], h[Items(outer)[i][2][2]]>>])

\* cls._ticker_cache[from_][to] = v on hc = <<heap, cache>>: the
\* defaultdict makes the row on first access
CacheSet(hc, from_, to, v) ==
    IF Has(hc[2], from_)
    THEN <<[hc[1] EXCEPT ![Get(hc[2], from_)[2]] = Put(@, to, v)], hc[2]>>
    ELSE <<Append(hc[1], Put(EmptyDict, to, v)),
           Put(hc[2], from_, Ref(Len(hc[1]) + 1))>>

\* symbol.split('_')
SplitSymbol(symbol) ==
    CASE symbol = "btc_usdt" -> <<"btc", "usdt">>
      [] symbol = "ltc_btc" -> <<"ltc", "btc">>

\* the body of the loop of fetch_prices, to and from_ already normalized:
\* [from_][to] = entry['sell'];  [to][from_] = entry['buy'] and 1 / entry['buy']
WriteEntry(to, from_, entry, hc) ==
    CacheSet(CacheSet(hc, from_, to, entry.sell), to, from_, PriceInverter(entry.buy))

\* for symbol, entry in ticker_data.items()
RECURSIVE WriteEntries(_, _, _)
WriteEntries(ticker_data, i, hc) ==
    IF i > Len(ticker_data) THEN hc
    ELSE WriteEntries(ticker_data, i + 1,
             WriteEntry(normalized_key(SplitSymbol(ticker_data[i][1])[1]),
                        normalized_key(SplitSymbol(ticker_data[i][1])[2]),
                        ticker_data[i][2], hc))

\* the heap once Ticker(cache) has run: the rows of the cache are as the
\* constructor left them
StoreRows(h, c, after) ==
    [id \in 1..Len(h) |->
        IF \E i \in 1..Len(Items(c)) : Items(c)[i][2] = Ref(id)
        THEN Items(after)[CHOOSE i \in 1..Len(Items(c)) : Items(c)[i][2] = Ref(id)][2]
        ELSE h[id]]

\* the Ticker object: its own outer dict, holding the rows of the cache
SharingRows(c, self) ==
    <<"Ticker", [i \in 1..Len(Items(self)) |-> <<Items(self)[i][1], Items(c)[i][2]>>]>>

\* MarketAPI.ticker on YobitAPI: Ticker(cls._ticker_cache), r being the
\* outcome of the constructor on the cache with its rows
TickerOfCache(hc, r) ==
    [heap |-> StoreRows(hc[1], hc[2], r.arg), cache |-> hc[2],
     ok |-> r.ok, ticker |-> IF r.ok THEN SharingRows(hc[2], r.val) ELSE None]

\* _fetch_ticker returns cls._ticker_cache, none made for fetch_prices alone
Fetched(kind, hc) ==
    IF kind = "ticker" THEN TickerOfCache(hc, Ticker__init__(Deref(hc[1], hc[2])))
    ELSE [heap |-> hc[1], cache |-> hc[2], ok |-> FALSE, ticker |-> None]

-----------------------------------------------------------------------------
(* Bounds and input universes *)

\* longest mapping handed to the normalizer
MaxLen == 3
\* most edges result[from_][to] = price an adapter puts into a raw ticker
MaxEdges == 2
\* most transformations applied to one constructed Ticker
MaxOps == 2

NormKeys == {"btc", "BTC", "Bitcoin (BTC)", "bcc", "rur", "usdt"}
NormVals == {Num(1, 1), Num(2, 1)}
Aggs == {"None", "sum", "list"}

TickKeys == {"btc", "BTC", "usdt"}
TickPrices == {Zero, Num(9000, 1), Num(11, 100000)}
Currencies == {"BTC", "USDT", "ETH"}
Accepted == {"BTC", "USDT"}
Fees == {Num(1, 2), Num(2, 1)}
\* receivers remembered: two, for a transformation applied twice
HistLen == 2
\* most coroutines of YobitAPI started
MaxTasks == 2
\* longest mapping at one level of a nested mapping
NestLen == 2
\* most orders an adapter puts into the open orders it returns
MaxOrders == 2

DistinctKeys(items) ==
    \A i, j \in 1..Len(items) : i # j => items[i][1] # items[j][1]

\* every flat dict of at most n entries over the given keys and values
FlatDicts(keys, vals, n) ==
    {Dict(items) : items \in
        {s \in UNION {[1..m -> keys \X vals] : m \in 0..n} : DistinctKeys(s)}}

BalAmounts == {Zero, Num(2, 1)}
RowPrices == {Zero, One, Num(9000, 1)}
\* the operands of a * b: amount vectors, price rows, scalars, a string
LeftOperands == {Balance(d) : d \in FlatDicts(Currencies, BalAmounts, MaxLen)}
\* nested mappings of depth 1, 2 and 3 handed to the recursive normalizer
LeafKeys == {"btc", "BTC"}
NestKeys == {"btc", "BTC", "usdt"}
Depth1 == FlatDicts(LeafKeys, {Num(1, 1)}, NestLen)
Depth2 == FlatDicts(NestKeys, Depth1, NestLen)
Depth3 == {Dict(<<<<k, d>>>>) : k \in NestKeys, d \in Depth2}
NestedDicts == Depth1 \cup Depth2 \cup Depth3

\* amount vectors with negative, zero and positive amounts
SignedAmounts == {Num(-2, 1), Zero, Num(2, 1)}
SignedOperands == {Balance(d) : d \in FlatDicts(Accepted, SignedAmounts, MaxLen)}
RightOperands ==
    {Balance(d) : d \in FlatDicts(Currencies, RowPrices, MaxLen)}
        \cup {Zero, Num(2, 1)} \cup {<<"str", "2">>}

\* the raw tickers an adapter builds with at most n assignments
\* result[from_][to] = price on a defaultdict(dict)
RECURSIVE RawTickersOver(_, _, _)
RawTickersOver(keys, prices, n) ==
    IF n = 0 THEN {<<"defaultdict", <<>>>>}
    ELSE RawTickersOver(keys, prices, n - 1) \cup
         {PutEdge(d, e[1], e[2], e[3]) :
             d \in RawTickersOver(keys, prices, n - 1), e \in keys \X keys \X prices}
RawTickers(n) == RawTickersOver(TickKeys, TickPrices, n)

\* what _fetch_ticker returns to MarketAPI.ticker, and what a client passes
FetchedTickers == RawTickersOver(TickKeys, {Num(9000, 1)}, MaxEdges)
MktBalances ==
    {Balance(EmptyDict),
     Balance(Dict(<<<<"BTC", Num(2, 1)>>>>)),
     Balance(Dict(<<<<"BTC", Num(2, 1)>>, <<"USDT", Num(9000, 1)>>>>))}
\* the symbols YobitAPI is asked for, and the entries of a response
YobRequests == {<<>>, <<"btc_usdt">>, <<"ltc_btc">>, <<"btc_usdt", "ltc_btc">>}
YobEntries ==
    {[sell |-> Num(9000, 1), buy |-> Num(9000, 1)],
     [sell |-> Num(9100, 1), buy |-> Zero]}
\* the responses api/3/ticker/<symbols> can give
Responses(symbols) ==
    {[i \in 1..Len(symbols) |-> <<symbols[i], f[i]>>] :
        f \in [1..Len(symbols) -> YobEntries]}

MktOps == {"buy_prices", "sell_prices", "buy_cost", "sell_cost"}
OrderOps == {"open_buy_orders", "open_sell_orders"}
\* the positional arguments of an operation, the ticker or the open orders
\* left out
ArgsOf(op) ==
    IF op \in {"buy_cost", "sell_cost"}
    THEN {<<b, c>> : b \in MktBalances, c \in Currencies}
    ELSE {<<c>> : c \in Currencies}

\* the order an adapter appends as the n-th, with its price
Order(n, price) ==
    Dict(<<<<"amount", Num(2, 1)>>, <<"price", price>>,
           <<"order_id", IF n = 1 THEN "o1" ELSE IF n = 2 THEN "o2" ELSE "o3">>>>)
\* result[from_][to].append(order) on a defaultdict of defaultdict(list)
AppendOrder(result, from_, to, order) ==
    Put(result, from_,
        Put(GetOr(result, from_, <<"defaultdict", <<>>>>), to,
            List(Append(GetOr(GetOr(result, from_, <<"defaultdict", <<>>>>),
                              to, List(<<>>))[2], order))))
OrderKeys == {"btc", "usdt"}
OrderPrices == {Zero, Num(1, 2)}
\* what _get_open_orders_data returns: at most n orders appended
RECURSIVE OrderData(_)
OrderData(n) ==
    IF n = 0 THEN {<<"defaultdict", <<>>>>}
    ELSE OrderData(n - 1) \cup
         {AppendOrder(d, e[1], e[2], Order(n, e[3])) :
             d \in OrderData(n - 1), e \in OrderKeys \X OrderKeys \X OrderPrices}

\* what the fetch of a coroutine object can return
RECURSIVE FetchedBy(_)
FetchedBy(co) ==
    IF co[2] = "ticker" THEN FetchedTickers
    ELSE IF co[2] = "open_orders" THEN OrderData(MaxOrders)
    ELSE FetchedBy(co[3])

-----------------------------------------------------------------------------
(* The state of a component that a specification does not exercise *)

NormIdle ==
    /\ nin = EmptyDict /\ nd = EmptyDict /\ nagg = "None"
    /\ ninplace = FALSE /\ nrecursive = FALSE /\ npc = "idle" /\ nout = NoOutcome

TickIdle ==
    /\ tk = None /\ thist = <<>> /\ tn = 0 /\ top = <<"idle">> /\ tout = NoOutcome

BalIdle == ba = None /\ bb = None /\ bout = NoOutcome /\ bop = "none" /\ bpre = None

MktIdle == mk = None /\ mfetches = 0

YobIdle == heap = <<>> /\ cache = <<"defaultdict", <<>>>> /\ ytasks = <<>> /\ yret = <<>> /\ ynreq = 0

-----------------------------------------------------------------------------
(* The normalizer called on a flat mapping *)

\* The recursive calls are made without an aggregator: sum on the rows of
\* a nested mapping is outside the numbers of the model.
NormInit ==
    /\ \/ /\ nin \in FlatDicts(NormKeys, NormVals, MaxLen)
          /\ nagg \in Aggs
          /\ nrecursive = FALSE
       \/ /\ nin \in NestedDicts
          /\ nagg = "None"
          /\ nrecursive = TRUE
    /\ nd = nin
    /\ ninplace \in BOOLEAN
    /\ npc = "ready"
    /\ nout = NoOutcome
    /\ TickIdle /\ BalIdle /\ MktIdle /\ YobIdle

\* the call returns or raises with outcome r
NormReturn(r) == nout' = r /\ nd' = r.arg

\* normalize_keys(d, agg=agg, inplace=inplace)
Normalize ==
    /\ npc = "ready"
    /\ NormReturn(normalize_keys(nd, nagg, ninplace, nrecursive))
    /\ npc' = "done"
    /\ UNCHANGED <<nin, nagg, ninplace, nrecursive>>
    /\ UNCHANGED <<tickVars, balVars, mktVars, yobVars>>

\* normalize_keys(x, ...) with the same options, x being what the first
\* call returned
NormalizeAgain ==
    /\ npc = "done"
    /\ nout.ok
    /\ NormReturn(normalize_keys(nout.val, nagg, ninplace, nrecursive))
    /\ nin' = nout.val
    /\ npc' = "again"
    /\ UNCHANGED <<nagg, ninplace, nrecursive>>
    /\ UNCHANGED <<tickVars, balVars, mktVars, yobVars>>

NormNext == Normalize \/ NormalizeAgain
SpecNorm == NormInit /\ [][NormNext]_vars

-----------------------------------------------------------------------------
(* A Ticker constructed from a raw mapping, then transformed and read *)

TickInit ==
    /\ tk = None /\ thist = <<>> /\ tn = 0 /\ top = <<"start">> /\ tout = NoOutcome
    /\ NormIdle /\ BalIdle /\ MktIdle /\ YobIdle

\* the constructor or a transformation ends with outcome r
TickReturn(r) == tout' = r /\ tk' = r.val

\* Ticker(raw)
Construct ==
    /\ top = <<"start">>
    /\ \E raw \in RawTickers(MaxEdges) :
         /\ TickReturn(Ticker__init__(raw))
         /\ top' = <<"Ticker", raw>>
         /\ thist' = <<top'>>
    /\ UNCHANGED tn
    /\ UNCHANGED <<normVars, balVars, mktVars, yobVars>>

\* a transformation may be applied to tk
CanTransform == TypeOf(tk) = "Ticker" /\ tn < MaxOps

\* the history with one more call, the oldest dropped beyond HistLen
Remember(call) ==
    /\ thist' = IF Len(thist) < HistLen THEN Append(thist, call)
                ELSE Append(Tail(thist), call)
    /\ tn' = tn + 1

\* tk.inverted()
Inverted ==
    /\ CanTransform
    /\ TickReturn(Ticker_inverted(tk))
    /\ top' = <<"inverted">>
    /\ Remember(<<"inverted", tk>>)
    /\ UNCHANGED <<normVars, balVars, mktVars, yobVars>>

\* tk.increased_by_fee(fee)
IncreasedByFee ==
    /\ CanTransform
    /\ \E fee \in Fees :
         /\ TickReturn(increased_by_fee(tk, fee))
         /\ top' = <<"increased_by_fee", fee>>
    /\ Remember(<<"increased_by_fee", tk>>)
    /\ UNCHANGED <<normVars, balVars, mktVars, yobVars>>

\* tk.projected(accepted_keys)
Projected ==
    /\ CanTransform
    /\ \E accepted_keys \in SUBSET Accepted :
         /\ TickReturn(projected(tk, accepted_keys))
         /\ top' = <<"projected", accepted_keys>>
    /\ Remember(<<"projected", tk>>)
    /\ UNCHANGED <<normVars, balVars, mktVars, yobVars>>

\* MarketAPI.buy_prices(currency, tk), which is tk.prices(currency)
BuyPrices ==
    /\ TypeOf(tk) = "Ticker"
    /\ top[1] # "buy_prices"
    /\ \E currency \in Currencies :
         /\ tout' = buy_prices(currency, tk)
         /\ top' = <<"buy_prices", currency, tk>>
    /\ tk' = tout'.arg
    /\ UNCHANGED <<thist, tn>>
    /\ UNCHANGED <<normVars, balVars, mktVars, yobVars>>

TickNext == Construct \/ Inverted \/ IncreasedByFee \/ Projected \/ BuyPrices
SpecTicker == TickInit /\ [][TickNext]_vars

-----------------------------------------------------------------------------
(* Two operands multiplied *)

BalInit ==
    /\ \/ ba \in LeftOperands /\ bb \in RightOperands
       \/ ba \in SignedOperands /\ bb \in SignedOperands
    /\ bout = NoOutcome
    /\ bop = "none"
    /\ bpre = None
    /\ NormIdle /\ TickIdle /\ MktIdle /\ YobIdle

\* op(a, b) returns or raises with outcome r, b being the argument
BalReturn(op, b, r) ==
    /\ bop' = op
    /\ bpre' = <<ba, b>>
    /\ bout' = r
    /\ ba' = r.arg
    /\ bb' = b

\* a * b
Mul ==
    /\ bop = "none"
    /\ BalReturn("mul", bb, Balance__mul__(ba, bb))
    /\ UNCHANGED <<normVars, tickVars, mktVars, yobVars>>

\* a + b
Add ==
    /\ bop = "none"
    /\ BalReturn("add", bb, Balance__add__(ba, bb))
    /\ UNCHANGED <<normVars, tickVars, mktVars, yobVars>>

\* a += b
IAdd ==
    /\ bop = "none"
    /\ BalReturn("iadd", bb, Balance__iadd__(ba, bb))
    /\ UNCHANGED <<normVars, tickVars, mktVars, yobVars>>

\* a.project(*keys)
Project ==
    /\ bop = "none"
    /\ \E keys \in SUBSET Accepted :
          BalReturn("project", <<"tuple", keys>>, Balance_project(ba, keys))
    /\ UNCHANGED <<normVars, tickVars, mktVars, yobVars>>

\* a.excluding(*keys)
Excluding ==
    /\ bop = "none"
    /\ \E keys \in SUBSET Accepted :
          BalReturn("excluding", <<"tuple", keys>>, Balance_excluding(ba, keys))
    /\ UNCHANGED <<normVars, tickVars, mktVars, yobVars>>

BalNext == Mul \/ Add \/ IAdd \/ Project \/ Excluding
SpecBalance == BalInit /\ [][BalNext]_vars

-----------------------------------------------------------------------------
(* A client of MarketAPI: one call, deferred or with a ticker fetched before *)

MktInit ==
    /\ mk = [pc |-> "start", op |-> "None", args |-> <<>>, given |-> None,
             co |-> None, fetched |-> None, out |-> NoOutcome, since |-> 0]
    /\ mfetches = 0
    /\ NormIdle /\ TickIdle /\ BalIdle /\ YobIdle

\* op(*args, tick) has returned r: a coroutine object to be driven, or the
\* end; since is the number of fetches completed before the call
Called(op, args, tick, r) ==
    mk' = IF r.ok /\ iscoroutine(r.val)
          THEN [mk EXCEPT !.pc = "pending", !.op = op, !.args = args,
                          !.given = tick, !.co = r.val, !.since = mfetches,
                          !.out = NoOutcome, !.fetched = None]
          ELSE [mk EXCEPT !.pc = "done", !.op = op, !.args = args,
                          !.given = tick, !.out = r, !.since = mfetches,
                          !.co = None, !.fetched = None]

\* cls.ticker(): the coroutine object, not started
TickerCall ==
    /\ mk.pc = "start"
    /\ mk' = [mk EXCEPT !.pc = "pending", !.op = "ticker", !.co = TickerCoro]
    /\ UNCHANGED mfetches
    /\ UNCHANGED <<normVars, tickVars, balVars, yobVars>>

\* self.open_orders(): the coroutine object, not started
OrdersCall ==
    /\ mk.pc = "start"
    /\ mk' = [mk EXCEPT !.pc = "pending", !.op = "open_orders", !.co = OpenOrdersCoro]
    /\ UNCHANGED mfetches
    /\ UNCHANGED <<normVars, tickVars, balVars, yobVars>>

\* op(*args) with no ticker and no open orders
CallDeferred ==
    /\ mk.pc = "start"
    /\ \E op \in MktOps \cup OrderOps : \E args \in ArgsOf(op) :
          Called(op, args, None, CallConverter(op, args, None))
    /\ UNCHANGED mfetches
    /\ UNCHANGED <<normVars, tickVars, balVars, yobVars>>

\* the coroutine object is awaited: it runs up to the await of the fetch
\* (cls._fetch_ticker() or self._get_open_orders_data())
Drive ==
    /\ mk.pc = "pending"
    /\ mk' = [mk EXCEPT !.pc = "fetching"]
    /\ UNCHANGED mfetches
    /\ UNCHANGED <<normVars, tickVars, balVars, yobVars>>

\* the fetch returns raw and the coroutine runs to its end
FetchReturn ==
    /\ mk.pc = "fetching"
    /\ \E raw \in FetchedBy(mk.co) :
          mk' = [mk EXCEPT !.pc = "done", !.fetched = raw, !.out = Await(mk.co, raw)]
    /\ mfetches' = mfetches + 1
    /\ UNCHANGED <<normVars, tickVars, balVars, yobVars>>

\* cls.op(*args, ticker), ticker being what await cls.ticker() gave
CallWithTicker ==
    /\ mk.pc = "done" /\ mk.op = "ticker" /\ mk.out.ok
    /\ \E op \in MktOps : \E args \in ArgsOf(op) :
          Called(op, args, mk.out.val, CallConverter(op, args, mk.out.val))
    /\ UNCHANGED mfetches
    /\ UNCHANGED <<normVars, tickVars, balVars, yobVars>>

\* self.op(*args, open_orders), open_orders being what
\* await self.open_orders() gave
CallWithOrders ==
    /\ mk.pc = "done" /\ mk.op = "open_orders" /\ mk.out.ok
    /\ \E op \in OrderOps : \E args \in ArgsOf(op) :
          Called(op, args, mk.out.val, CallConverter(op, args, mk.out.val))
    /\ UNCHANGED mfetches
    /\ UNCHANGED <<normVars, tickVars, balVars, yobVars>>

MktNext ==
    \/ TickerCall \/ OrdersCall \/ CallDeferred \/ Drive \/ FetchReturn
    \/ CallWithTicker \/ CallWithOrders
SpecMarket == MktInit /\ [][MktNext]_vars

-----------------------------------------------------------------------------
(* Coroutines of YobitAPI interleaved on one event loop *)

YobInit ==
    /\ heap = <<>>
    /\ cache = <<"defaultdict", <<>>>>
    /\ ytasks = <<>>
    /\ yret = <<>>
    /\ ynreq = 0
    /\ NormIdle /\ TickIdle /\ BalIdle /\ MktIdle

RemoveAt(seq, i) == [j \in 1..(Len(seq) - 1) |-> IF j < i THEN seq[j] ELSE seq[j + 1]]

\* coroutine i runs to its end, f being what its last step made
Finish(i, f) ==
    /\ heap' = f.heap
    /\ cache' = f.cache
    /\ yret' = IF f.ok
               THEN Append(yret, [ticker |-> f.ticker, snap |-> Deref(f.heap, f.ticker)])
               ELSE yret
    /\ ytasks' = RemoveAt(ytasks, i)

\* YobitAPI.ticker(*pairs) or YobitAPI.fetch_prices(*pairs) is started and
\* runs up to await cls.pairs_as_symbols()
YStart ==
    /\ ynreq < MaxTasks
    /\ \E kind \in {"ticker", "fetch_prices"} : \E symbols \in YobRequests :
          ytasks' = Append(ytasks, [kind |-> kind, symbols |-> symbols, pc |-> "pairs"])
    /\ ynreq' = ynreq + 1
    /\ UNCHANGED <<heap, cache, yret>>
    /\ UNCHANGED <<normVars, tickVars, balVars, mktVars>>

\* pairs_as_symbols returns: with no symbol fetch_prices returns at once,
\* else the coroutine runs up to await cls._make_request(...)
YPairsReturn ==
    /\ \E i \in 1..Len(ytasks) :
          /\ ytasks[i].pc = "pairs"
          /\ IF ytasks[i].symbols = <<>>
             THEN Finish(i, Fetched(ytasks[i].kind, <<heap, cache>>))
             ELSE /\ ytasks' = [ytasks EXCEPT ![i].pc = "request"]
                  /\ UNCHANGED <<heap, cache, yret>>
    /\ UNCHANGED ynreq
    /\ UNCHANGED <<normVars, tickVars, balVars, mktVars>>

\* _make_request returns ticker_data: the cache is written and the
\* coroutine runs to its end
YResponse ==
    /\ \E i \in 1..Len(ytasks) :
          /\ ytasks[i].pc = "request"
          /\ \E ticker_data \in Responses(ytasks[i].symbols) :
                Finish(i, Fetched(ytasks[i].kind,
                                  WriteEntries(ticker_data, 1, <<heap, cache>>)))
    /\ UNCHANGED ynreq
    /\ UNCHANGED <<normVars, tickVars, balVars, mktVars>>

YobNext == YStart \/ YPairsReturn \/ YResponse
SpecYobit == YobInit /\ [][YobNext]_vars

-----------------------------------------------------------------------------
(* Both value types: a Ticker transformed and read, or two operands combined *)

ValInit == TickInit \/ BalInit
ValNext ==
    \/ BalIdle /\ TickNext
    \/ TickIdle /\ ~BalIdle /\ BalNext
SpecValues == ValInit /\ [][ValNext]_vars

-----------------------------------------------------------------------------
(* Properties of the normalizer *)

\* the canonical keys of a mapping, and whether two raw keys share one
CanonKeys(d) == {normalized_key(k) : k \in Keys(d)}
Collides(d) == Cardinality(CanonKeys(d)) < Len(Items(d))
CollidingKeys(d) ==
    {key \in CanonKeys(d) : Cardinality({k \in Keys(d) : normalized_key(k) = key}) > 1}

\* the values of the raw keys of d that canonicalize to key, in encounter order
RawValuesOf(d, key) ==
    LET hit(kv) == normalized_key(kv[1]) = key
        sel == SelectSeq(Items(d), hit)
    IN  [j \in 1..Len(sel) |-> sel[j][2]]

\* C2: a non-recursive normalize of a mapping in which raw keys collide:
\* without an aggregator it raises the duplicate-key error (ValueError)
\* naming a colliding canonical key and returns no mapping; with an
\* aggregator it succeeds, its keys are the canonical keys, and each
\* canonical key holds the aggregator applied to the list of its raw
\* values in encounter order.
ThmC2 ==
    (npc = "done" /\ ~nrecursive /\ Collides(nin)) =>
        IF nagg = "None"
        THEN /\ ~nout.ok
             /\ nout.err = "ValueError"
             /\ nout.key \in CollidingKeys(nin)
             /\ IsNone(nout.val)
        ELSE /\ nout.ok
             /\ Keys(nout.val) = CanonKeys(nin)
             /\ \A key \in CanonKeys(nin) :
                    Get(nout.val, key) = ApplyAgg(nagg, RawValuesOf(nin, key))

\* {"btc": 1, "BTC": 2} with sum gives {"BTC": 3}
WitC2 ==
    /\ npc = "done"
    /\ ~nrecursive
    /\ nagg = "sum"
    /\ nin = Dict(<<<<"btc", Num(1, 1)>>, <<"BTC", Num(2, 1)>>>>)
    /\ nout.ok
    /\ Keys(nout.val) = {"BTC"}
    /\ Get(nout.val, "BTC") = Num(3, 1)

\* no two keys of a mapping share a canonical key, at any depth
RECURSIVE CollisionFree(_)
CollisionFree(x) ==
    IsDict(x) =>
        /\ ~Collides(x)
        /\ \A i \in 1..Len(Items(x)) : CollisionFree(Items(x)[i][2])

\* y is x with every key of every mapping at every depth canonical, every
\* value that is no mapping being as it is in x
RECURSIVE Canonicalized(_, _)
Canonicalized(x, y) ==
    IF IsDict(x)
    THEN /\ IsDict(y)
         /\ Len(Items(y)) = Len(Items(x))
         /\ \A i \in 1..Len(Items(x)) :
               /\ Has(y, normalized_key(Items(x)[i][1]))
               /\ Canonicalized(Items(x)[i][2], Get(y, normalized_key(Items(x)[i][1])))
    ELSE y = x

\* C12 (as claimed): normalize with recursive=True, on a nested mapping of
\* any depth whose leaves are no mappings and in which no keys collide,
\* succeeds, and in the result every key of every mapping at every depth is
\* canonical while the values that are no mappings are unchanged.
CexC12 ==
    (npc = "done" /\ nrecursive /\ CollisionFree(nin)) =>
        /\ nout.ok
        /\ Canonicalized(nin, nout.val)

\* what the code does: the nested calls are not recursive, so exactly two
\* levels are normalized; a mapping of depth 1 with an entry raises
\* AttributeError, and the keys of a third level are left as they are
RECURSIVE CanonicalizedTo(_, _, _)
CanonicalizedTo(x, y, depth) ==
    IF IsDict(x) /\ depth > 0
    THEN /\ IsDict(y)
         /\ Len(Items(y)) = Len(Items(x))
         /\ \A i \in 1..Len(Items(x)) :
               /\ Has(y, normalized_key(Items(x)[i][1]))
               /\ CanonicalizedTo(Items(x)[i][2],
                                  Get(y, normalized_key(Items(x)[i][1])), depth - 1)
    ELSE y = x
FactC12 ==
    (npc = "done" /\ nrecursive /\ CollisionFree(nin)) =>
        IF \E i \in 1..Len(Items(nin)) : ~IsDict(Items(nin)[i][2])
        THEN ~nout.ok /\ nout.err = "AttributeError"
        ELSE nout.ok /\ CanonicalizedTo(nin, nout.val, 2)

\* x == y on nested mappings: dict equality ignores the order of the keys
RECURSIVE SameMapping(_, _)
SameMapping(x, y) ==
    IF IsDict(x) /\ IsDict(y)
    THEN /\ Keys(x) = Keys(y)
         /\ \A k \in Keys(x) : SameMapping(Get(x, k), Get(y, k))
    ELSE x = y

\* normalized_key(normalized_key(k)) == normalized_key(k) for every spelling
KeyIdempotent ==
    \A k \in LowerKeys \cup MixedKeys \cup UpperKeys :
        normalized_key(normalized_key(k)) = normalized_key(k)

\* C13 (as claimed): for any mapping x on which normalize succeeds,
\* normalize(normalize(x)) equals normalize(x) when called with the same
\* options; normalized_key is idempotent on every raw key; a second
\* normalization never raises a duplicate-key error.
CexC13 ==
    /\ KeyIdempotent
    /\ npc = "again" => nout.ok /\ SameMapping(nout.val, nin)

\* C13 (amended): the same, for a call with no aggregator or with an
\* aggregator that gives v on the one-element list [v] (sum); with any
\* aggregator the second normalization raises nothing.
ThmC13 ==
    /\ KeyIdempotent
    /\ npc = "again" =>
          /\ nout.ok
          /\ nagg \in {"None", "sum"} => SameMapping(nout.val, nin)

\* {"BTC": 3}, got with sum from colliding keys in place, normalized again
WitC13 ==
    /\ npc = "again"
    /\ nagg = "sum"
    /\ ninplace
    /\ Keys(nin) = {"BTC"} /\ Get(nin, "BTC") = Num(3, 1)
    /\ nout.ok
    /\ Keys(nout.val) = {"BTC"} /\ Get(nout.val, "BTC") = Num(3, 1)

-----------------------------------------------------------------------------
(* Properties of the Ticker *)

HasEdge(t, a, b) == Has(t, a) /\ Has(Get(t, a), b)
Price(t, a, b) == Get(Get(t, a), b)
\* a price graph as a function: source -> (destination -> price)
Graph(t) == [a \in Keys(t) |-> AsFn(Get(t, a))]
\* the receiver of the last transformation
Receiver == thist[Len(thist)][2]

\* C3 (as claimed): prices(currency), and so buy_prices(currency, ticker),
\* for a currency that is no source of the ticker returns an empty Balance
\* and raises nothing.
CexC3 ==
    (top[1] = "buy_prices" /\ ~Has(tk, top[2])) =>
        /\ tout.ok
        /\ TypeOf(tout.val) = "Balance"
        /\ Items(tout.val) = <<>>

\* C5: in every Ticker made by the constructor and any sequence of
\* inverted, increased_by_fee and projected, every source c has the
\* self-edge price[c][c], equal to 1.0.
ThmC5 ==
    TypeOf(tk) = "Ticker" =>
        \A c \in Keys(tk) : HasEdge(tk, c, c) /\ Price(tk, c, c) = One

\* a raw ticker that gives BTC a self-price of 9000, constructed and then
\* scaled by a fee: BTC->BTC is 1.0 and BTC->USDT is scaled
WitC5 ==
    /\ TypeOf(tk) = "Ticker"
    /\ top[1] = "increased_by_fee"
    /\ Len(thist) = 2
    /\ thist[1][1] = "Ticker"
    /\ Has(thist[1][2], "btc")
    /\ Has(Get(thist[1][2], "btc"), "btc")
    /\ Get(Get(thist[1][2], "btc"), "btc") = Num(9000, 1)
    /\ HasEdge(tk, "BTC", "USDT") /\ Price(tk, "BTC", "USDT") = Num(18000, 1)
    /\ Price(tk, "BTC", "BTC") = One

\* C6: inverted() returns the transposed graph with zero-safe reciprocals:
\* every edge a -> b (a # b) of the receiver with price p is the edge
\* b -> a of the result, with price 0 if p is 0 and 1/p otherwise; the
\* result has no other edge between distinct currencies; nothing is raised.
ThmC6 ==
    top[1] = "inverted" =>
        /\ tout.ok
        /\ \A a \in Keys(Receiver) : \A b \in Keys(Get(Receiver, a)) :
              a # b =>
                /\ HasEdge(tk, b, a)
                /\ IF Price(Receiver, a, b) = Zero THEN Price(tk, b, a) = Zero
                   ELSE NumMul(Price(tk, b, a), Price(Receiver, a, b)) = One
        /\ \A b \in Keys(tk) : \A a \in Keys(Get(tk, b)) :
              a # b => HasEdge(Receiver, a, b)

\* an inversion of a graph with a zero edge and a non-zero edge
WitC6 ==
    /\ top[1] = "inverted"
    /\ \E a \in Keys(Receiver) : \E b \in Keys(Get(Receiver, a)) :
          a # b /\ Price(Receiver, a, b) = Zero
    /\ \E a \in Keys(Receiver) : \E b \in Keys(Get(Receiver, a)) :
          a # b /\ Price(Receiver, a, b) # Zero

\* tk is g.inverted().inverted(), g being the receiver of the first call
TwiceInverted ==
    /\ top[1] = "inverted"
    /\ Len(thist) = 2
    /\ thist[1][1] = "inverted" /\ thist[2][1] = "inverted"
AllNonZero(g) ==
    \A a \in Keys(g) : \A b \in Keys(Get(g, a)) : Price(g, a, b) # Zero

\* C7 (as claimed): g.inverted().inverted() raises nothing; it reproduces g
\* (same sources, same destinations in each row, same prices) when no
\* price of g is zero; a zero edge of g is zero after both inversions.
CexC7 ==
    TwiceInverted =>
        /\ tout.ok
        /\ AllNonZero(thist[1][2]) => Graph(tk) = Graph(thist[1][2])
        /\ \A a \in Keys(thist[1][2]) : \A b \in Keys(Get(thist[1][2], a)) :
              Price(thist[1][2], a, b) = Zero =>
                /\ HasEdge(thist[2][2], b, a) /\ Price(thist[2][2], b, a) = Zero
                /\ HasEdge(tk, a, b) /\ Price(tk, a, b) = Zero

\* C7 (amended): g.inverted().inverted() raises nothing and reproduces every
\* row of g (same destinations, same prices, a zero edge being zero after
\* each inversion); its sources are those of g and the destinations of g
\* that are no source of g, each of these with its self-edge 1.0 alone.
ThmC7 ==
    TwiceInverted =>
        /\ tout.ok
        /\ \A a \in Keys(thist[1][2]) :
              Has(tk, a) /\ AsFn(Get(tk, a)) = AsFn(Get(thist[1][2], a))
        /\ \A a \in Keys(thist[1][2]) : \A b \in Keys(Get(thist[1][2], a)) :
              Price(thist[1][2], a, b) = Zero =>
                HasEdge(thist[2][2], b, a) /\ Price(thist[2][2], b, a) = Zero
        /\ \A b \in Keys(tk) \ Keys(thist[1][2]) :
              /\ \E a \in Keys(thist[1][2]) : Has(Get(thist[1][2], a), b)
              /\ Keys(Get(tk, b)) = {b}
              /\ Price(tk, b, b) = One

\* g has a destination that is no source, a zero edge and a non-zero edge
WitC7 ==
    /\ TwiceInverted
    /\ Keys(thist[1][2]) = {"BTC", "USDT"}
    /\ Keys(tk) = {"BTC", "USDT"}
    /\ \E a \in Keys(thist[1][2]) : \E b \in Keys(Get(thist[1][2], a)) :
          a # b /\ Price(thist[1][2], a, b) = Zero
    /\ \E a \in Keys(thist[1][2]) : \E b \in Keys(Get(thist[1][2], a)) :
          a # b /\ Price(thist[1][2], a, b) # Zero

\* the raw ticker {"btc": {"usdt": 9000}, "usdt": {"btc": 0.00011}}
IsExampleRaw(raw) ==
    /\ Keys(raw) = {"btc", "usdt"}
    /\ Keys(Get(raw, "btc")) = {"usdt"} /\ Get(Get(raw, "btc"), "usdt") = Num(9000, 1)
    /\ Keys(Get(raw, "usdt")) = {"btc"} /\ Get(Get(raw, "usdt"), "btc") = Num(11, 100000)

\* tk is Ticker(raw) of the example
ExampleConstructed == top[1] = "Ticker" /\ IsExampleRaw(top[2])
\* tk is Ticker(raw).inverted() of the example
ExampleInverted ==
    /\ top[1] = "inverted"
    /\ Len(thist) = 2
    /\ thist[1][1] = "Ticker" /\ IsExampleRaw(thist[1][2])

\* the sources of the example are BTC and USDT, with self-edges 1.0
ExampleSources(t) ==
    /\ Keys(t) = {"BTC", "USDT"}
    /\ HasEdge(t, "BTC", "BTC") /\ Price(t, "BTC", "BTC") = One
    /\ HasEdge(t, "USDT", "USDT") /\ Price(t, "USDT", "USDT") = One

\* C8 (as claimed): the graph of the example has exactly the sources BTC and
\* USDT with self-edges 1.0, and its inverted() graph has BTC->USDT = 1/9000
\* and USDT->BTC = 1/0.00011.
CexC8 ==
    /\ ExampleConstructed => tout.ok /\ ExampleSources(tk)
    /\ ExampleInverted =>
          /\ tout.ok /\ ExampleSources(Receiver)
          /\ HasEdge(tk, "BTC", "USDT") /\ Price(tk, "BTC", "USDT") = Num(1, 9000)
          /\ HasEdge(tk, "USDT", "BTC") /\ Price(tk, "USDT", "BTC") = Num(100000, 11)

\* C8 (amended): the graph of the example has exactly the sources BTC and
\* USDT with self-edges 1.0 and the edges BTC->USDT = 9000 and
\* USDT->BTC = 0.00011, and its inverted() graph has exactly the same
\* sources, the self-edges 1.0, USDT->BTC = 1/9000 and BTC->USDT = 1/0.00011.
ThmC8 ==
    /\ ExampleConstructed =>
          /\ tout.ok /\ ExampleSources(tk)
          /\ Keys(Get(tk, "BTC")) = {"BTC", "USDT"}
          /\ Keys(Get(tk, "USDT")) = {"BTC", "USDT"}
          /\ Price(tk, "BTC", "USDT") = Num(9000, 1)
          /\ Price(tk, "USDT", "BTC") = Num(11, 100000)
    /\ ExampleInverted =>
          /\ tout.ok /\ ExampleSources(Receiver) /\ ExampleSources(tk)
          /\ Keys(Get(tk, "BTC")) = {"BTC", "USDT"}
          /\ Keys(Get(tk, "USDT")) = {"BTC", "USDT"}
          /\ Price(tk, "USDT", "BTC") = Num(1, 9000)
          /\ Price(tk, "BTC", "USDT") = Num(100000, 11)

WitC8 == ExampleInverted /\ tout.ok

-----------------------------------------------------------------------------
(* Properties of Balance *)

\* a * b has been evaluated, b being an amount vector
Multiplied == bop = "mul" /\ TypeOf(bb) = "Balance"

\* C9: a * b for two vectors is the zero-defaulted elementwise product: no
\* error; the keys of the result are exactly keys(a) union keys(b), each
\* once; the value at k is a.get(k, 0) * b.get(k, 0), so a zero price or a
\* zero amount gives a zero entry.
ThmC9 ==
    Multiplied =>
        /\ bout.ok
        /\ TypeOf(bout.val) = "Balance"
        /\ DistinctKeys(Items(bout.val))
        /\ Keys(bout.val) = Keys(ba) \cup Keys(bb)
        /\ \A k \in Keys(ba) \cup Keys(bb) :
              Get(bout.val, k) = NumMul(GetOr(ba, k, Zero), GetOr(bb, k, Zero))

\* a key of a alone, a key of b alone, a zero price on a held currency
WitC9 ==
    /\ Multiplied
    /\ Keys(ba) \ Keys(bb) # {}
    /\ Keys(bb) \ Keys(ba) # {}
    /\ \E k \in Keys(ba) \cap Keys(bb) :
          Get(ba, k) # Zero /\ Get(bb, k) = Zero /\ Get(bout.val, k) = Zero

\* {"BTC": 2} * {"BTC": 1.0, "USDT": 9000}
ExampleProduct ==
    /\ Multiplied
    /\ AsFn(ba) = [k \in {"BTC"} |-> Num(2, 1)]
    /\ AsFn(bb) = [k \in {"BTC", "USDT"} |-> IF k = "BTC" THEN One ELSE Num(9000, 1)]

\* a holds one currency c, and b is a price row of c (b[c] is 1.0)
SingleCurrencyRow ==
    /\ Multiplied
    /\ Cardinality(Keys(ba)) = 1
    /\ \A c \in Keys(ba) : Has(bb, c) /\ Get(bb, c) = One

\* C10 (as claimed): {"BTC": 2} * {"BTC": 1.0, "USDT": 9000} is
\* {"BTC": 2, "USDT": 18000}; balance * row gives each destination currency
\* of the row the value of the balance expressed in that currency (the
\* amount held times the price of the held currency in the destination).
CexC10 ==
    /\ ExampleProduct =>
          /\ bout.ok
          /\ AsFn(bout.val) =
                [k \in {"BTC", "USDT"} |-> IF k = "BTC" THEN Num(2, 1) ELSE Num(18000, 1)]
    /\ SingleCurrencyRow =>
          /\ bout.ok
          /\ \A c \in Keys(ba) : \A k \in Keys(bb) :
                Has(bout.val, k) /\ Get(bout.val, k) = NumMul(Get(ba, c), Get(bb, k))

\* C10 (amended): {"BTC": 2} * {"BTC": 1.0, "USDT": 9000} is
\* {"BTC": 2, "USDT": 0}; balance * row gives each destination currency k
\* of the row the amount the balance holds in k itself times row[k], which
\* is zero for a currency the balance does not hold.
ThmC10 ==
    /\ ExampleProduct =>
          /\ bout.ok
          /\ AsFn(bout.val) =
                [k \in {"BTC", "USDT"} |-> IF k = "BTC" THEN Num(2, 1) ELSE Zero]
    /\ Multiplied =>
          /\ bout.ok
          /\ \A k \in Keys(bb) :
                /\ Has(bout.val, k)
                /\ Get(bout.val, k) =
                      IF Has(ba, k) THEN NumMul(Get(ba, k), Get(bb, k)) ELSE Zero

WitC10 == ExampleProduct /\ bout.ok /\ Keys(bout.val) = {"BTC", "USDT"}

-----------------------------------------------------------------------------
(* Properties of MarketAPI *)

\* a buy_cost or sell_cost called without a ticker has been driven to its end
DeferredCostDone ==
    /\ mk.pc = "done"
    /\ mk.op \in {"buy_cost", "sell_cost"}
    /\ IsNone(mk.given)
\* the same operation, passed the ticker that the fetch returned
SyncOutcome == CallConverter(mk.op, mk.args, ticker(mk.fetched).val)

\* C1 (as claimed): buy_cost and sell_cost called without a ticker and
\* driven to completion yield exactly the amount vector the same operation
\* returns when it is passed the ticker that the fetch returned.
CexC1 ==
    (DeferredCostDone /\ ticker(mk.fetched).ok /\ SyncOutcome.ok) =>
        /\ mk.out.ok
        /\ mk.out.val = SyncOutcome.val

\* what the code does instead: the price row is handed back as the ticker
FactC1 ==
    (DeferredCostDone /\ ticker(mk.fetched).ok /\ SyncOutcome.ok) =>
        /\ ~mk.out.ok
        /\ mk.out.err = "AttributeError"
        /\ mk.out.key = IF mk.op = "buy_cost" THEN "prices" ELSE "inverted"

\* one of the six operations has been called, with or without its input
OperationCalled == mk.op \in MktOps \cup OrderOps

\* C14: for buy_prices, sell_prices, buy_cost, sell_cost, open_buy_orders
\* and open_sell_orders: a call that passes the ticker or the open orders
\* has its result at once (no deferred computation) and no fetch is begun
\* or completed by it; a call that omits it returns a deferred computation,
\* no fetch is begun before that is driven, the converter has produced
\* nothing while the fetch is pending, and the result exists only after
\* exactly one fetch has completed.
ThmC14 ==
    OperationCalled =>
        IF ~IsNone(mk.given)
        THEN /\ mk.pc = "done"
             /\ ~iscoroutine(mk.out.val)
             /\ mk.out.err # "NoCall"
             /\ mfetches = mk.since
             /\ IsNone(mk.fetched)
        ELSE /\ mk.pc \in {"pending", "fetching", "done"}
             /\ mk.pc \in {"pending", "fetching"} =>
                   /\ mfetches = mk.since
                   /\ IsNone(mk.fetched)
                   /\ mk.out = NoOutcome
             /\ mk.pc = "done" =>
                   /\ mfetches = mk.since + 1
                   /\ ~IsNone(mk.fetched)
                   /\ mk.out = Await(mk.co, mk.fetched)

\* sell_prices without a ticker, driven to its end: one fetch, then a row
WitC14 ==
    /\ mk.op = "sell_prices"
    /\ IsNone(mk.given)
    /\ mk.pc = "done"
    /\ mfetches = 1
    /\ mk.out.ok
    /\ TypeOf(mk.out.val) = "Balance"

\* open_buy_orders(X, open_orders) has returned, open_orders being explicit
BuyOrdersDone ==
    /\ mk.pc = "done"
    /\ mk.op = "open_buy_orders"
    /\ ~IsNone(mk.given)

\* the sources of open_orders that have a list of orders for destination X
SourcesFor(orders, X) == {src \in Keys(orders) : Has(Get(orders, src), X)}

\* new is old relabelled: same order_id, amount * price, zero-safe 1 / price
Relabelled(old, new) ==
    /\ Keys(new) = {"order_id", "amount", "price"}
    /\ Get(new, "order_id") = Get(old, "order_id")
    /\ Get(new, "amount") = NumMul(Get(old, "amount"), Get(old, "price"))
    /\ IF Get(old, "price") = Zero THEN Get(new, "price") = Zero
       ELSE NumMul(Get(new, "price"), Get(old, "price")) = One

\* C15: open_buy_orders(X, open_orders) with explicit open orders
\* source -> destination -> [orders] returns a mapping source -> [orders]
\* whose sources are exactly those with a list open_orders[source][X]; each
\* list has the orders of open_orders[source][X] in the same sequence, the
\* order_id unchanged, the amount being amount * price and the price being
\* 0 if price == 0 else 1/price; a destination with no orders gives an
\* empty mapping; the input structure is as it was.
ThmC15 ==
    BuyOrdersDone =>
        /\ mk.out.ok
        /\ IsDict(mk.out.val)
        /\ Keys(mk.out.val) = SourcesFor(mk.given, mk.args[1])
        /\ \A src \in SourcesFor(mk.given, mk.args[1]) :
              /\ TypeOf(Get(mk.out.val, src)) = "list"
              /\ Len(Get(mk.out.val, src)[2]) = Len(Get(Get(mk.given, src), mk.args[1])[2])
              /\ \A j \in 1..Len(Get(mk.out.val, src)[2]) :
                    Relabelled(Get(Get(mk.given, src), mk.args[1])[2][j],
                               Get(mk.out.val, src)[2][j])
        /\ mk.out.arg = mk.given

\* two orders USDT -> BTC, the first with a zero price, read for BTC
WitC15 ==
    /\ BuyOrdersDone
    /\ mk.args[1] = "BTC"
    /\ SourcesFor(mk.given, "BTC") = {"USDT"}
    /\ Len(Get(mk.out.val, "USDT")[2]) = 2
    /\ Get(Get(mk.out.val, "USDT")[2][1], "order_id") = "o1"
    /\ Get(Get(mk.out.val, "USDT")[2][1], "price") = Zero
    /\ Get(Get(mk.out.val, "USDT")[2][2], "order_id") = "o2"
    /\ Get(Get(mk.out.val, "USDT")[2][2], "price") = Num(2, 1)
    /\ Get(Get(mk.out.val, "USDT")[2][2], "amount") = One

-----------------------------------------------------------------------------
(* Properties of YobitAPI *)

\* C4 (as claimed): a Ticker returned by ticker() is immutable after it is
\* returned: whatever fetches run or complete later, every row and every
\* price of it stays what it was at the moment it was returned.
CexC4 ==
    \A i \in 1..Len(yret) : Deref(heap, yret[i].ticker) = yret[i].snap

\* a + b or a += b has been evaluated, b being an amount vector
Added == bop \in {"add", "iadd"} /\ TypeOf(bpre[2]) = "Balance"

\* C11 (as claimed): a + b, and the accumulation a += b, is the elementwise
\* sum over the union of the key sets, zero and negative amounts included:
\* the keys of the result are keys(a) union keys(b) and the value at k is
\* a.get(k, 0) + b.get(k, 0).
CexC11 ==
    Added =>
        /\ bout.ok
        /\ Keys(bout.val) = Keys(bpre[1]) \cup Keys(bpre[2])
        /\ \A k \in Keys(bpre[1]) \cup Keys(bpre[2]) :
              Get(bout.val, k) = NumAdd(GetOr(bpre[1], k, Zero), GetOr(bpre[2], k, Zero))

\* what the code does instead: the entries whose sum is not positive are
\* left out (by a + b) or deleted from the receiver (by a += b)
FactC11 ==
    Added =>
        /\ bout.ok
        /\ Keys(bout.val) =
              {k \in Keys(bpre[1]) \cup Keys(bpre[2]) :
                  NumLess(Zero, NumAdd(GetOr(bpre[1], k, Zero), GetOr(bpre[2], k, Zero)))}
        /\ \A k \in Keys(bout.val) :
              Get(bout.val, k) = NumAdd(GetOr(bpre[1], k, Zero), GetOr(bpre[2], k, Zero))

-----------------------------------------------------------------------------
(* Failure of the normalizer *)

\* the first call raised the duplicate-key error
DuplicateKeyRaised ==
    /\ npc = "done"
    /\ ~nout.ok
    /\ nout.err = "ValueError"

\* C17: whenever normalize_keys, with any combination of inplace and
\* recursive, raises the duplicate-key error, the mapping passed in, nested
\* mappings included, has exactly the keys and values it had before the
\* call.
CexC17 == DuplicateKeyRaised => nd = nin

\* What the code does: the passed mapping is as it was unless the call was
\* both recursive and in place; then the rows were normalized before the
\* outer keys were found to collide, and the outer keys are as they were.
FactC17 ==
    DuplicateKeyRaised =>
        /\ ~(ninplace /\ nrecursive) => nd = nin
        /\ Keys(nd) = Keys(nin)

-----------------------------------------------------------------------------
(* Properties of both value types *)

=============================================================================
